---- MODULE Spec2Model ----
(***************************************************************************)
(* Model of the assessment runner of the AI assessment tool:               *)
(*   src/src/app/assess/page.tsx (the later of the two copies in the file, *)
(*   lines 835-1841) and the provider proxies under src/src/app/api/proxy. *)
(*                                                                         *)
(* One page session runs runAssessment: configuration check, rate-limit    *)
(* check, recovery from sessionStorage, then the SDK's client.assess loop  *)
(* that calls trackedCallAI once per question.  Every closure of           *)
(* runAssessment (conversationHistory, partialResults, questionIndex, the  *)
(* AbortController) is one record: `run` is the closure of the current    *)
(* call, and a manual retry after an error starts a new closure while the  *)
(* old one, kept in `orphans`, may still hold a pending callback.          *)
(***************************************************************************)
EXTENDS Integers, Sequences, FiniteSets, TLC

(***************************************************************************)
(* Bounds of the model.                                                    *)
(***************************************************************************)
NumQuestions == 2      \* questions of the SDK's question set in Spec
MaxFaults == 3         \* failed provider calls, SDK errors, accepted retry dialogs
                       \* and page reloads in one behaviour of Spec
RetryQuestions == 1    \* questions of the question set in SpecRetry
RetryFaults == 4       \* faults in one behaviour of SpecRetry
LongQuestions == 21    \* questions of the question set in SpecLong
LongFaults == 1        \* faults in one behaviour of SpecLong
MaxTokens == 3         \* tokens of a provider text in SpecExtract
MaxMessages == 2       \* entries of the messages array of a proxy request in SpecProxy
NumDemoQuestions == 2  \* questions of DEMO_QUESTIONS served in SpecSdk

(***************************************************************************)
(* Program constants.                                                      *)
(***************************************************************************)
CONTEXT_WINDOW_SIZE == 20
MAX_RETRIES == 3
INITIAL_RETRY_DELAY_MS == 2000
MAX_CONTEXT_MESSAGES == 40

(***************************************************************************)
(* Sequences and strings.  A string the code searches is a sequence of     *)
(* one-character strings, so that String.includes is a real substring test.*)
(***************************************************************************)
Max(a, b) == IF a >= b THEN a ELSE b

RECURSIVE Pow2(_)
Pow2(n) == IF n = 0 THEN 1 ELSE 2 * Pow2(n - 1)

\* Array.prototype.slice(start) for start >= 0
SliceFrom(s, start) == SubSeq(s, start + 1, Len(s))

\* Array.prototype.slice(-n)
SliceLast(s, n) == SliceFrom(s, Max(0, Len(s) - n))

\* String.prototype.includes
Includes(s, sub) ==
  \E i \in 1..(Len(s) - Len(sub) + 1) : SubSeq(s, i, i + Len(sub) - 1) = sub

Providers == {"openai", "anthropic", "gemini", "grok"}

ProviderName(provider) ==
  CASE provider = "anthropic" -> <<"A","n","t","h","r","o","p","i","c">>
    [] provider = "gemini" -> <<"G","e","m","i","n","i">>
    [] provider = "grok" -> <<"G","r","o","k">>
    [] OTHER -> <<"O","p","e","n","A","I">>

\* `${Provider} API error: ${response.status}`
ApiErrorText(provider, statusDigits) ==
  ProviderName(provider) \o <<" ","A","P","I"," ","e","r","r","o","r",":"," ">> \o statusDigits

(***************************************************************************)
(* The ways a provider call can fail, and the message of the Error that    *)
(* callAI throws for each.  The texts of the Gemini proxy are the literals *)
(* of src/src/app/api/proxy/gemini/route.ts.                               *)
(***************************************************************************)
CommonErrorKinds == {"rate_limit", "auth"}
GeminiErrorKinds == {"invalid_key_format", "safety_block", "empty_response", "timeout"}
ErrorKinds == CommonErrorKinds \cup GeminiErrorKinds

ErrorKindsOf(provider) ==
  IF provider = "gemini" THEN ErrorKinds ELSE CommonErrorKinds

\* the outcomes of a call sent with the stored key: without a key the proxy
\* answers 400 "Missing required fields: apiKey, messages"
FailuresOf(cfg) ==
  IF cfg.hasApiKey THEN ErrorKindsOf(cfg.provider) ELSE {"missing_fields"}

ErrorMessage(provider, kind) ==
  CASE kind = "rate_limit" -> ApiErrorText(provider, <<"4","2","9">>)
    [] kind = "auth" -> ApiErrorText(provider, <<"4","0","1">>)
    [] kind = "invalid_key_format" ->
         <<"I","n","v","a","l","i","d"," ","G","e","m","i","n","i"," ","A","P","I"," ",
           "k","e","y"," ","f","o","r","m","a","t","."," ","K","e","y"," ","s","h","o","u",
           "l","d"," ","s","t","a","r","t"," ","w","i","t","h"," ","'","A","I","z","a","'">>
    [] kind = "safety_block" ->
         <<"R","e","s","p","o","n","s","e"," ","b","l","o","c","k","e","d"," ","b","y"," ",
           "G","e","m","i","n","i"," ","s","a","f","e","t","y"," ","f","i","l","t","e","r","s">>
    [] kind = "empty_response" ->
         <<"N","o"," ","r","e","s","p","o","n","s","e"," ","g","e","n","e","r","a","t","e",
           "d"," ","b","y"," ","G","e","m","i","n","i">>
    [] kind = "timeout" ->
         <<"G","e","m","i","n","i"," ","A","P","I"," ","r","e","q","u","e","s","t"," ","t",
           "i","m","e","d"," ","o","u","t"," ","a","f","t","e","r"," ","3","0"," ","s","e",
           "c","o","n","d","s">>
    [] kind = "missing_fields" ->
         <<"M","i","s","s","i","n","g"," ","r","e","q","u","i","r","e","d"," ","f","i",
           "e","l","d","s",":"," ","a","p","i","K","e","y",","," ","m","e","s","s","a",
           "g","e","s">>
    [] OTHER -> <<>>

isRateLimitError_TimeoutToo(errorMessage) ==
  \/ Includes(errorMessage, <<"4","2","9">>)
  \/ Includes(errorMessage, <<"r","a","t","e">>)
  \/ Includes(errorMessage, <<"R","a","t","e">>)
  \/ Includes(errorMessage, <<"t","o","o"," ","m","a","n","y"," ","r","e","q","u","e","s","t","s">>)
  \/ Includes(errorMessage, <<"T","o","o"," ","M","a","n","y"," ","R","e","q","u","e","s","t","s">>)
  \/ Includes(errorMessage, <<"t","i","m","e","d"," ","o","u","t">>)

isRateLimitError(errorMessage) ==
  \/ Includes(errorMessage, <<"4","2","9">>)
  \/ Includes(errorMessage, <<"r","a","t","e">>)
  \/ Includes(errorMessage, <<"R","a","t","e">>)
  \/ Includes(errorMessage, <<"t","o","o"," ","m","a","n","y"," ","r","e","q","u","e","s","t","s">>)
  \/ Includes(errorMessage, <<"T","o","o"," ","M","a","n","y"," ","R","e","q","u","e","s","t","s">>)

\* DELAY_BETWEEN_QUESTIONS_MS[provider], 0 for undefined
DELAY_BETWEEN_QUESTIONS_MS(provider) ==
  CASE provider = "openai" -> 500
    [] provider = "anthropic" -> 500
    [] provider = "gemini" -> 200
    [] provider = "grok" -> 1500
    [] OTHER -> 0

\* const questionDelay = DELAY_BETWEEN_QUESTIONS_MS[provider] || 100
questionDelay(provider) ==
  IF DELAY_BETWEEN_QUESTIONS_MS(provider) # 0 THEN DELAY_BETWEEN_QUESTIONS_MS(provider) ELSE 100

retryDelay_Linear(retryCount) == INITIAL_RETRY_DELAY_MS * (retryCount + 1)

\* const retryDelay = INITIAL_RETRY_DELAY_MS * Math.pow(2, retryCount)
retryDelay(retryCount) == INITIAL_RETRY_DELAY_MS * Pow2(retryCount)

(***************************************************************************)
(* extractAnswerLetter of the provider proxies                             *)
(* (src/src/app/api/proxy/openai/route.ts and gemini/route.ts, the same    *)
(* function in both).  Regular expressions are matched by hand on          *)
(* sequences of characters; "en-dash" and "em-dash" stand for the two      *)
(* dashes of the character class of the fourth pattern.                    *)
(***************************************************************************)
LowerCase == <<"a","b","c","d","e","f","g","h","i","j","k","l","m","n","o","p","q","r","s","t","u","v","w","x","y","z">>
UpperCase == <<"A","B","C","D","E","F","G","H","I","J","K","L","M","N","O","P","Q","R","S","T","U","V","W","X","Y","Z">>
Digits == {"0","1","2","3","4","5","6","7","8","9"}
Whitespace == {" ", "\n", "\t"}
Dashes == {"-", "en-dash", "em-dash"}
AnswerLetters == {"A", "B", "C", "D"}

toUpperCaseChar(ch) ==
  IF \E i \in 1..Len(LowerCase) : LowerCase[i] = ch
  THEN UpperCase[CHOOSE i \in 1..Len(LowerCase) : LowerCase[i] = ch]
  ELSE ch

toUpperCase_Identity(str) == str

\* String.prototype.toUpperCase
toUpperCase(str) == [i \in 1..Len(str) |-> toUpperCaseChar(str[i])]

RECURSIVE trimStart(_)
trimStart(str) ==
  IF str # <<>> /\ Head(str) \in Whitespace THEN trimStart(Tail(str)) ELSE str

RECURSIVE trimEnd(_)
trimEnd(str) ==
  IF str # <<>> /\ str[Len(str)] \in Whitespace
  THEN trimEnd(SubSeq(str, 1, Len(str) - 1)) ELSE str

\* String.prototype.trim
trim(str) == trimEnd(trimStart(str))

\* the character at index i (from 1), "" outside the string
CharAt(str, i) == IF i \in 1..Len(str) THEN str[i] ELSE ""

IsLetter(ch) == \E i \in 1..Len(LowerCase) : ch = LowerCase[i] \/ ch = UpperCase[i]

\* \w
IsWordChar(ch) == IsLetter(ch) \/ ch \in Digits \/ ch = "_"

\* [ABCD] without and with the i flag
IsABCD(ch) == ch \in AnswerLetters
IsABCDi(ch) == toUpperCaseChar(ch) \in AnswerLetters

\* the literal lit, matched with the i flag, starts at index i of str
MatchesAt(str, i, literal) ==
  /\ i >= 1
  /\ i + Len(literal) - 1 <= Len(str)
  /\ \A k \in 1..Len(literal) :
       toUpperCaseChar(str[i + k - 1]) = toUpperCaseChar(literal[k])

\* \b between index i - 1 and index i
WordBoundary(str, i) == IsWordChar(CharAt(str, i - 1)) # IsWordChar(CharAt(str, i))

\* the end of a greedy run of characters of class, from index i
RECURSIVE SkipWhile(_, _, _)
SkipWhile(str, i, class) ==
  IF CharAt(str, i) \in class THEN SkipWhile(str, i + 1, class) ELSE i

Least(S) == CHOOSE i \in S : \A j \in S : i <= j

\* Priority 1: /^[ABCD]$/i
IsSingleLetter(cleaned) == Len(cleaned) = 1 /\ IsABCDi(cleaned[1])

\* Priority 2: /^[ABCD]([^A-Z]|$)/i
StartsWithLetter(cleaned) ==
  /\ Len(cleaned) >= 1
  /\ IsABCDi(cleaned[1])
  /\ Len(cleaned) = 1 \/ ~IsLetter(cleaned[2])

\* /(?:answer|choice|option|select|choose)[:\s]*([ABCD])/i
Keywords == <<<<"a","n","s","w","e","r">>, <<"c","h","o","i","c","e">>, <<"o","p","t","i","o","n">>, <<"s","e","l","e","c","t">>, <<"c","h","o","o","s","e">>>>

KeywordCapture(str, i, k) ==
  CharAt(str, SkipWhile(str, i + Len(Keywords[k]), Whitespace \cup {":"}))

KeywordPattern(str) ==
  LET hits(i) == { k \in 1..Len(Keywords) :
                     MatchesAt(str, i, Keywords[k]) /\ IsABCDi(KeywordCapture(str, i, k)) }
      starts == { i \in 1..Len(str) : hits(i) # {} }
  IN IF starts = {} THEN "null"
     ELSE KeywordCapture(str, Least(starts), Least(hits(Least(starts))))

\* /^([ABCD])\)/
ParenPattern(str) ==
  IF IsABCD(CharAt(str, 1)) /\ CharAt(str, 2) = ")" THEN str[1] ELSE "null"

\* /^([ABCD])\./
DotPattern(str) ==
  IF IsABCD(CharAt(str, 1)) /\ CharAt(str, 2) = "." THEN str[1] ELSE "null"

\* /\b([ABCD])\s*[-, en dash, em dash]\s/
DashPattern(str) ==
  LET starts == { i \in 1..Len(str) :
                    /\ IsABCD(str[i])
                    /\ WordBoundary(str, i)
                    /\ LET j == SkipWhile(str, i + 1, Whitespace)
                       IN CharAt(str, j) \in Dashes /\ CharAt(str, j + 1) \in Whitespace }
  IN IF starts = {} THEN "null" ELSE str[Least(starts)]

\* /^"?([ABCD])"?$/
QuotedPattern(str) ==
  LET from == IF CharAt(str, 1) = "\"" THEN 2 ELSE 1
  IN IF /\ IsABCD(CharAt(str, from))
        /\ \/ Len(str) = from
           \/ Len(str) = from + 1 /\ str[from + 1] = "\""
     THEN str[from] ELSE "null"

\* /I (?:would )?(?:choose|select|pick) ([ABCD])/i
Verbs == <<<<"c","h","o","o","s","e">>, <<"s","e","l","e","c","t">>, <<"p","i","c","k">>>>

VerbCapture(str, i) ==
  LET hits == { k \in 1..Len(Verbs) :
                  /\ MatchesAt(str, i, Verbs[k])
                  /\ CharAt(str, i + Len(Verbs[k])) = " "
                  /\ IsABCDi(CharAt(str, i + Len(Verbs[k]) + 1)) }
  IN IF hits = {} THEN "null" ELSE str[i + Len(Verbs[Least(hits)]) + 1]

ChooseCapture(str, i) ==
  IF ~MatchesAt(str, i, <<"I"," ">>) THEN "null"
  ELSE IF MatchesAt(str, i + 2, <<"w","o","u","l","d"," ">>) /\ VerbCapture(str, i + 8) # "null"
       THEN VerbCapture(str, i + 8)
       ELSE VerbCapture(str, i + 2)

ChoosePattern(str) ==
  LET starts == { i \in 1..Len(str) : ChooseCapture(str, i) # "null" }
  IN IF starts = {} THEN "null" ELSE ChooseCapture(str, Least(starts))

\* /(?:my|the) answer is ([ABCD])/i
AnswerIsCapture(str, i) ==
  LET hits == { w \in {<<"m","y">>, <<"t","h","e">>} :
                  /\ MatchesAt(str, i, w \o <<" ","a","n","s","w","e","r"," ","i","s"," ">>)
                  /\ IsABCDi(CharAt(str, i + Len(w) + 11)) }
  IN IF hits = {} THEN "null" ELSE str[i + Len(CHOOSE w \in hits : TRUE) + 11]

AnswerIsPattern(str) ==
  LET starts == { i \in 1..Len(str) : AnswerIsCapture(str, i) # "null" }
  IN IF starts = {} THEN "null" ELSE AnswerIsCapture(str, Least(starts))

\* Priority 4: /\b([ABCD])\b/
StandalonePattern(str) ==
  LET starts == { i \in 1..Len(str) :
                    IsABCD(str[i]) /\ WordBoundary(str, i) /\ WordBoundary(str, i + 1) }
  IN IF starts = {} THEN "null" ELSE str[Least(starts)]

\* the patterns in the reverse of the order of the array
patterns_Reversed(cleaned) ==
  <<AnswerIsPattern(cleaned), ChoosePattern(cleaned), QuotedPattern(cleaned),
    DashPattern(cleaned), DotPattern(cleaned), ParenPattern(cleaned), KeywordPattern(cleaned)>>

\* the patterns of Priority 3, in the order of the array
patterns(cleaned) ==
  <<KeywordPattern(cleaned), ParenPattern(cleaned), DotPattern(cleaned), DashPattern(cleaned),
    QuotedPattern(cleaned), ChoosePattern(cleaned), AnswerIsPattern(cleaned)>>

extractAnswerLetter(response) ==
  LET cleaned == toUpperCase(trim(response))
      captures == patterns(cleaned)
      matched == { k \in 1..Len(captures) : captures[k] # "null" }
  IN IF IsSingleLetter(cleaned) THEN cleaned[1]
     ELSE IF StartsWithLetter(cleaned) THEN cleaned[1]
     ELSE IF matched # {} THEN toUpperCaseChar(captures[Least(matched)])
     ELSE StandalonePattern(cleaned)


(***************************************************************************)
(* Messages, partial results, the closure of one runAssessment call.       *)
(***************************************************************************)
UserMsg(question) == [role |-> "user", content |-> <<"Q", question>>]
AssistantMsg(answer) == [role |-> "assistant", content |-> <<answer>>]
SystemMsg == [role |-> "system", content |-> <<"systemPrompt">>]

PartialResult(questionIndex, question, answer) ==
  [questionIndex |-> questionIndex, question |-> question, answer |-> answer]

NewRun ==
  [ rl |-> "none",                  \* outcome of this run's checkRateLimit
    conversationHistory |-> <<>>,
    openaiHistory |-> <<>>,
    partialResults |-> <<>>,
    questionIndex |-> 0,
    aborted |-> FALSE,              \* controller.signal.aborted
    cb |-> "idle",                  \* where trackedCallAI is: idle, delay, call, backoff
    question |-> -1,                \* the question trackedCallAI was called with
    retryCount |-> 0,
    windowedHistory |-> <<>>,       \* messages passed to the latest provider call
    sleeps |-> <<>>,                \* backoff delays slept for this question
    waits |-> <<>>,                 \* inter-call delays waited before this question's call
    calls |-> 0,                    \* adapter calls made for this question
    lastErr |-> "none",             \* the failure of the latest adapter call
    logBefore |-> 0,                \* conversationHistory.length when trackedCallAI began
    ret |-> "none",                 \* how trackedCallAI ended: none, ok, err
    thrown |-> "none",              \* the error it threw
    resumed |-> FALSE ]

Unset == [set |-> FALSE, value |-> <<>>]
Stored(v) == [set |-> TRUE, value |-> v]

(***************************************************************************)
(* JSON.stringify and JSON.parse of the two saved lists.  The text is a    *)
(* sequence of tokens: every entry is written as "{", its field values in  *)
(* the order of the object literal, "}".                                   *)
(***************************************************************************)
RECURSIVE StringifyMessages(_)
StringifyMessages(messages) ==
  IF messages = <<>> THEN <<>>
  ELSE <<"{", Head(messages).role, Head(messages).content, "}">>
         \o StringifyMessages(Tail(messages))

RECURSIVE ParseMessages(_)
ParseMessages(text) ==
  IF Len(text) < 4 THEN <<>>
  ELSE <<[role |-> text[2], content |-> text[3]]>> \o ParseMessages(SubSeq(text, 5, Len(text)))

RECURSIVE StringifyResults(_)
StringifyResults(results) ==
  IF results = <<>> THEN <<>>
  ELSE <<"{", Head(results).questionIndex, Head(results).question, Head(results).answer, "}">>
         \o StringifyResults(Tail(results))

RECURSIVE ParseResults(_)
ParseResults(text) ==
  IF Len(text) < 5 THEN <<>>
  ELSE <<PartialResult(text[2], text[3], text[4])>> \o ParseResults(SubSeq(text, 6, Len(text)))

VARIABLES
  config,          \* localStorage assessmentConfig
  env,             \* the question set and the provider stub
  sessionStorage,  \* assessment_history, assessment_partial_results, assessment_error
  status,          \* React state `status`
  pc,              \* where the current runAssessment call is
  run,             \* the closure of the current runAssessment call
  orphans,         \* earlier closures whose trackedCallAI is still pending
  sdkNext,         \* index of the next question client.assess asks
  budget,          \* what the environment may still do
  rawResponse,     \* the text a provider returned to a proxy
  extracted,       \* what extractAnswerLetter made of it
  request,         \* the body of the request a proxy route is serving
  response,        \* what the route did with it
  served,          \* what GET /api/sdk/config answered
  assessed,        \* the scoring request and what the scoring endpoint answered
  caught,          \* the error handed to getErrorMessage
  shown,           \* the message getErrorMessage returned
  form,            \* state of the configure page: config, keyValid, validating
  validation       \* the validateApiKey call awaiting its fetch

proxyVars == <<rawResponse, extracted, request, response>>

pageVars == <<config, env, sessionStorage, status, pc, run, orphans, sdkNext, budget>>

sdkVars == <<served, assessed>>

errorVars == <<caught, shown>>

formVars == <<form, validation>>

\* the variables of the components other than the assess page
otherVars == <<proxyVars, sdkVars, errorVars, formVars>>

vars == <<pageVars, otherVars>>

NoConfig ==
  [present |-> FALSE, provider |-> "openai", conversationalMode |-> TRUE,
   hasApiKey |-> FALSE, hasSystemPrompt |-> FALSE]

\* stored configurations with an API key and a system prompt
Configs(providers, modes) ==
  { [present |-> TRUE, provider |-> p, conversationalMode |-> m,
     hasApiKey |-> TRUE, hasSystemPrompt |-> TRUE] :
      p \in providers, m \in modes }

\* stored configurations that lack the API key, the system prompt or both
IncompleteConfigs ==
  { [present |-> TRUE, provider |-> "gemini", conversationalMode |-> TRUE,
     hasApiKey |-> k, hasSystemPrompt |-> sp] :
      k \in BOOLEAN, sp \in BOOLEAN } \ Configs({"gemini"}, {TRUE})

\* client.assess asks its questions from the first one
AssessFirstQuestion == 0

EmptyStore ==
  [assessment_history |-> Unset, assessment_partial_results |-> Unset, assessment_error |-> Unset]

\* no proxy request is being served
NoRequest == [provider |-> "none"]
NoResponse == [status |-> 0]

ProxyIdle ==
  /\ rawResponse = <<>>
  /\ extracted = "none"
  /\ request = NoRequest
  /\ response = NoResponse

NotServed == [success |-> FALSE]
NotAssessed == [success |-> FALSE]

\* no request to the SDK endpoints has been made
SdkIdle == served = NotServed /\ assessed = NotAssessed

NoError == [code |-> "none"]

\* no error is being shown
ErrorIdle == caught = NoError /\ shown = <<>>

NoForm == [provider |-> "none"]
NoValidation == [pending |-> FALSE]

\* the configure page is not open
FormIdle == form = NoForm /\ validation = NoValidation

OthersIdle == ProxyIdle /\ SdkIdle /\ ErrorIdle /\ FormIdle

InitCommon ==
  /\ sessionStorage = EmptyStore
  /\ status = "loading"
  /\ pc = "start"
  /\ run = NewRun
  /\ orphans = {}
  /\ sdkNext = AssessFirstQuestion

Init ==
  /\ InitCommon
  /\ config \in Configs(Providers, BOOLEAN) \cup IncompleteConfigs \cup {NoConfig}
  /\ env = [total |-> NumQuestions, letters |-> {"A"}]
  /\ budget = MaxFaults
  /\ OthersIdle

InitRetry ==
  /\ InitCommon
  /\ config \in Configs(Providers, BOOLEAN)
  /\ env = [total |-> RetryQuestions, letters |-> {"A"}]
  /\ budget = RetryFaults
  /\ OthersIdle

InitLong ==
  /\ InitCommon
  /\ config \in Configs({"openai", "anthropic"}, {TRUE})
  /\ env = [total |-> LongQuestions, letters |-> {"A"}]
  /\ budget = LongFaults
  /\ OthersIdle

(***************************************************************************)
(* callAI, callAIWithRetry and trackedCallAI as functions on one closure.  *)
(***************************************************************************)
Conversational(cfg) == cfg.conversationalMode

\* const windowStart = Math.max(0, conversationHistory.length - CONTEXT_WINDOW_SIZE * 2);
\* const windowedHistory = conversationHistory.slice(windowStart);
ProxyWindow(conversationHistory) ==
  SliceFrom(conversationHistory, Max(0, Len(conversationHistory) - CONTEXT_WINDOW_SIZE * 2))

\* const systemMsg = openaiHistory[0];
\* const recentMessages = openaiHistory.slice(1).slice(-(CONTEXT_WINDOW_SIZE * 2));
\* const windowedHistory = [systemMsg, ...recentMessages];
OpenAIWindow(openaiHistory) ==
  <<openaiHistory[1]>> \o SliceLast(Tail(openaiHistory), CONTEXT_WINDOW_SIZE * 2)

\* callAI(question) up to the point where the request is sent
CallAISend(closure, cfg, question) ==
  IF Conversational(cfg)
  THEN IF cfg.provider = "openai"
       THEN LET h == Append(closure.openaiHistory, UserMsg(question))
            IN [closure EXCEPT !.openaiHistory = h, !.windowedHistory = OpenAIWindow(h)]
       ELSE LET h == Append(closure.conversationHistory, UserMsg(question))
            IN [closure EXCEPT !.conversationHistory = h, !.windowedHistory = ProxyWindow(h)]
  ELSE IF cfg.provider = "openai"
       THEN [closure EXCEPT !.windowedHistory = <<SystemMsg, UserMsg(question)>>]
       ELSE [closure EXCEPT !.windowedHistory = <<UserMsg(question)>>]

\* one attempt of callAIWithRetry(question, retryCount): the adapter call goes out
IssueCall(closure, cfg, question, retryCount) ==
  [CallAISend(closure, cfg, question) EXCEPT
     !.cb = "call", !.question = question, !.retryCount = retryCount,
     !.calls = IF retryCount = 0 THEN 1 ELSE @ + 1,
     !.sleeps = IF retryCount = 0 THEN <<>> ELSE @,
     !.lastErr = "none", !.ret = "none", !.thrown = "none"]

\* callAI(question) after the provider answered: the histories
CallAIReceive(closure, cfg, answer) ==
  IF Conversational(cfg)
  THEN IF cfg.provider = "openai"
       THEN [closure EXCEPT
               !.openaiHistory = Append(@, AssistantMsg(answer)),
               !.conversationHistory = @ \o <<UserMsg(closure.question), AssistantMsg(answer)>>]
       ELSE [closure EXCEPT !.conversationHistory = Append(@, AssistantMsg(answer))]
  ELSE closure

\* sessionStorage.setItem("assessment_history", ...) of the conversational callAI
SaveHistory(store, closure, cfg) ==
  IF Conversational(cfg)
  THEN [store EXCEPT !.assessment_history =
                       Stored(StringifyMessages(closure.conversationHistory))]
  ELSE store

\* trackedCallAI after callAIWithRetry returned: partialResults.push, questionIndex++
TrackResult(closure, answer) ==
  [closure EXCEPT
     !.partialResults = Append(@, PartialResult(closure.questionIndex, closure.question, answer)),
     !.questionIndex = @ + 1,
     !.cb = "idle", !.ret = "ok", !.windowedHistory = <<>>]

SavePartialResults_Append(store, closure) ==
  [store EXCEPT !.assessment_partial_results =
                  Stored(@.value \o StringifyResults(closure.partialResults))]

\* sessionStorage.setItem("assessment_partial_results", ...)
SavePartialResults(store, closure) ==
  [store EXCEPT !.assessment_partial_results = Stored(StringifyResults(closure.partialResults))]

questionIndexInit_Zero(partialResults) == 0

\* let questionIndex = partialResults.length;
questionIndexInit(partialResults) == Len(partialResults)

\* the recovery block of runAssessment
Recover(closure, cfg, store, resumeConfirmed) ==
  LET savedHistory == store.assessment_history
      savedResults == store.assessment_partial_results
      pre == IF savedHistory.set /\ savedResults.set /\ resumeConfirmed
             THEN [closure EXCEPT
                     !.conversationHistory = @ \o ParseMessages(savedHistory.value),
                     !.partialResults = @ \o ParseResults(savedResults.value),
                              !.resumed = TRUE]
             ELSE closure
  IN [pre EXCEPT
        !.openaiHistory = IF cfg.provider = "openai" /\ Conversational(cfg)
                          THEN <<SystemMsg>> ELSE <<>>,
        !.questionIndex = questionIndexInit(pre.partialResults)]

RecoverStore(store, resumeConfirmed) ==
  IF store.assessment_history.set /\ store.assessment_partial_results.set /\ ~resumeConfirmed
  THEN [store EXCEPT !.assessment_history = Unset, !.assessment_partial_results = Unset]
  ELSE store

\* trackedCallAI(question) from its start to its first await (not aborted)
EnterTracked(closure, cfg, question) ==
  LET entered == [closure EXCEPT !.logBefore = Len(closure.conversationHistory),
                                 !.waits = <<>>]
  IN IF closure.questionIndex > 0
     THEN [entered EXCEPT !.cb = "delay", !.question = question, !.retryCount = 0,
                          !.calls = 0, !.sleeps = <<>>, !.lastErr = "none", !.ret = "none",
                          !.thrown = "none"]
     ELSE IssueCall(entered, cfg, question, 0)

\* if (isRateLimitError && retryCount < MAX_RETRIES)
ShouldRetry(errorMessage, retryCount) ==
  isRateLimitError(errorMessage) /\ retryCount < MAX_RETRIES

(***************************************************************************)
(* The catch block of runAssessment.  err is "cancelled" or an error kind; *)
(* closure is the closure as the failing step left it.  Nothing reads the  *)
(* value stored under assessment_error, so only its presence is kept.      *)
(***************************************************************************)
CatchError(err, store, closure) ==
  IF err = "cancelled"
  THEN /\ status' = "cancelled"
       /\ pc' = "done"
       /\ sessionStorage' = store
  ELSE /\ sessionStorage' = [store EXCEPT !.assessment_error = Stored(<<>>)]
       /\ status' = "error"
       /\ pc' = IF Len(closure.partialResults) > 0 THEN "retry-confirm" ELSE "done"

(***************************************************************************)
(* The requests of the page: where each goes and whether its body holds    *)
(* the user's API key.  The OpenAI client runs in the browser and talks to *)
(* the vendor; every other provider is called through a route of the       *)
(* application.                                                            *)
(***************************************************************************)
OwnBackendRoutes ==
  {"/api/rate-limit", "/api/proxy/anthropic", "/api/proxy/gemini", "/api/proxy/grok",
   "/api/send-results"}

RateLimitRequest == [url |-> "/api/rate-limit", apiKey |-> FALSE]

CallRequest(cfg) ==
  [url |-> CASE cfg.provider = "anthropic" -> "/api/proxy/anthropic"
             [] cfg.provider = "gemini" -> "/api/proxy/gemini"
             [] cfg.provider = "grok" -> "/api/proxy/grok"
             [] OTHER -> "https://api.openai.com/v1/chat/completions",
   apiKey |-> cfg.hasApiKey]

(***************************************************************************)
(* Actions.                                                                *)
(***************************************************************************)
\* what the platform's rate-limit-check answers to the route: a body with
\* canProceed true ("proceed") or false ("deny"), a body without canProceed such
\* as an error body ("no_field"), or nothing that parses ("throws")
UpstreamAnswers == {"proceed", "deny", "no_field", "throws"}

\* GET /api/rate-limit: the body the route answers with
RateLimitGET(keyConfigured, upstream) ==
  IF ~keyConfigured THEN "proceed"
  ELSE IF upstream = "throws" THEN "proceed"
  ELSE upstream

\* fetch("/api/rate-limit") and response.json() of checkRateLimit: the data
\* read, "throws" when the page's request fails
RateLimitData(pageFetch, keyConfigured, upstream) ==
  IF pageFetch = "throws" THEN "throws" ELSE RateLimitGET(keyConfigured, upstream)

checkRateLimit_AlwaysTrue(data) == TRUE

\* the value checkRateLimit returns: true when the fetch throws, else false
\* when data.canProceed is false or missing, true when it is true
checkRateLimit(data) == data = "throws" \/ data = "proceed"

statusOnCheck_Unset == status

\* setStatus("checking-rate-limit") at the start of checkRateLimit
statusOnCheck == "checking-rate-limit"

\* runAssessment from its start to the first await; a closure left behind
\* with its callback still pending lives on
RunStart ==
  /\ pc = "start"
  /\ IF ~config.present
     THEN /\ status' = "error"
          /\ pc' = "done"
          /\ UNCHANGED <<run, orphans>>
     ELSE /\ status' = statusOnCheck
          /\ pc' = "ratelimit"
          /\ run' = [NewRun EXCEPT !.rl = "pending"]
          /\ orphans' = IF run.cb # "idle" THEN orphans \cup {run} ELSE orphans
  /\ UNCHANGED <<otherVars, config, env, sessionStorage, sdkNext, budget>>

\* the fetch of checkRateLimit resolves with data or throws; when
\* checkRateLimit returned true runAssessment
\* goes on to client.assess
RateLimitResolves(data, resumeConfirmed) ==
  /\ pc = "ratelimit"
  /\ IF ~checkRateLimit(data)
     THEN /\ status' = "rate-limited"
          /\ pc' = "done"
          /\ run' = [run EXCEPT !.rl = "denied"]
          /\ UNCHANGED <<sessionStorage, sdkNext>>
     ELSE /\ status' = "running"
          /\ IF config.hasSystemPrompt
             THEN /\ pc' = "assess"
                  /\ run' = Recover([run EXCEPT !.rl = IF data = "deny" THEN "denied"
                                                       ELSE "passed"],
                                    config, sessionStorage, resumeConfirmed)
                  /\ sessionStorage' = RecoverStore(sessionStorage, resumeConfirmed)
             ELSE \* config.systemPrompt.substring throws outside the try block
                  /\ pc' = "done"
                  /\ run' = [run EXCEPT !.rl = IF data = "deny" THEN "denied" ELSE "passed"]
                  /\ UNCHANGED sessionStorage
          /\ sdkNext' = AssessFirstQuestion
  /\ UNCHANGED <<otherVars, config, env, orphans, budget>>

\* client.assess calls trackedCallAI(question) for its next question
SdkAsk ==
  /\ pc = "assess"
  /\ run.cb = "idle"
  /\ sdkNext < env.total
  /\ IF run.aborted
     THEN /\ CatchError("cancelled", sessionStorage, run)
          /\ run' = [run EXCEPT !.question = sdkNext, !.retryCount = 0, !.calls = 0,
                                 !.sleeps = <<>>, !.waits = <<>>, !.lastErr = "none",
                                 !.logBefore = Len(run.conversationHistory),
                                 !.ret = "err", !.thrown = "cancelled"]
     ELSE /\ run' = EnterTracked(run, config, sdkNext)
          /\ UNCHANGED <<status, pc, sessionStorage>>
  /\ UNCHANGED <<otherVars, config, env, orphans, sdkNext, budget>>

\* the closures with a callback in progress: c is in orphans or is run
Closures == orphans \cup {run}

\* closure c becomes d
Becomes(c, d) ==
  IF c \in orphans
  THEN /\ orphans' = IF d.cb = "idle" THEN orphans \ {c} ELSE (orphans \ {c}) \cup {d}
       /\ UNCHANGED run
  ELSE /\ run' = d
       /\ UNCHANGED orphans

\* the SDK is awaiting the callback of closure c
SdkAwaits(c) == c \notin orphans /\ pc = "assess"

\* await delay(questionDelay) ends
DelayDone(c) ==
  /\ c.cb = "delay"
  /\ Becomes(c, [IssueCall(c, config, c.question, 0) EXCEPT
                   !.waits = Append(@, questionDelay(config.provider))])
  /\ UNCHANGED <<otherVars, config, env, sessionStorage, status, pc, sdkNext, budget>>

\* the provider answers the call of closure c
ProviderAnswers(c, answer) ==
  /\ c.cb = "call"
  /\ config.hasApiKey
  /\ LET got == CallAIReceive(c, config, answer)
         store1 == SaveHistory(sessionStorage, got, config)
         done == TrackResult(got, answer)
         store2 == SavePartialResults(store1, done)
     IN /\ Becomes(c, done)
        /\ sessionStorage' = store2
  /\ IF SdkAwaits(c)
     THEN /\ sdkNext' = sdkNext + 1
          /\ pc' = IF sdkNext + 1 = env.total THEN "submit" ELSE "assess"
     ELSE UNCHANGED <<sdkNext, pc>>
  /\ UNCHANGED <<otherVars, config, env, status, budget>>

\* the call of closure c fails: the catch of callAIWithRetry
ProviderFails(c, kind) ==
  /\ c.cb = "call"
  /\ budget > 0
  /\ budget' = budget - 1
  /\ LET failed == [c EXCEPT !.lastErr = kind, !.windowedHistory = <<>>]
     IN IF ShouldRetry(ErrorMessage(config.provider, kind), c.retryCount)
        THEN /\ Becomes(c, [failed EXCEPT !.cb = "backoff",
                                          !.sleeps = Append(@, retryDelay(c.retryCount))])
             /\ UNCHANGED <<status, pc, sessionStorage>>
        ELSE LET thrown == [failed EXCEPT !.cb = "idle", !.ret = "err", !.thrown = kind]
             IN /\ Becomes(c, thrown)
                /\ IF SdkAwaits(c)
                   THEN CatchError(kind, sessionStorage, thrown)
                   ELSE UNCHANGED <<status, pc, sessionStorage>>
  /\ UNCHANGED <<otherVars, config, env, sdkNext>>

\* await delay(retryDelay) ends: callAIWithRetry(question, retryCount + 1)
BackoffDone(c) ==
  /\ c.cb = "backoff"
  /\ Becomes(c, IssueCall(c, config, c.question, c.retryCount + 1))
  /\ UNCHANGED <<otherVars, config, env, sessionStorage, status, pc, sdkNext, budget>>

\* client.assess rejects by itself: QUESTION_TIMEOUT while the callback is
\* pending, a platform error between two questions or at scoring
SdkThrows(code) ==
  /\ pc \in {"assess", "submit"}
  /\ budget > 0
  /\ budget' = budget - 1
  /\ (code = "QUESTION_TIMEOUT") <=> (run.cb # "idle")
  /\ CatchError(code, sessionStorage, run)
  /\ UNCHANGED <<otherVars, config, env, run, orphans, sdkNext>>

ClearOnSuccess_KeepsError(store) ==
  [store EXCEPT !.assessment_history = Unset, !.assessment_partial_results = Unset]

\* the three sessionStorage.removeItem calls of the success path
ClearOnSuccess(store) ==
  [store EXCEPT !.assessment_history = Unset, !.assessment_partial_results = Unset,
                !.assessment_error = Unset]

\* client.assess resolves with the scored result
AssessCompletes ==
  /\ pc = "submit"
  /\ sessionStorage' = ClearOnSuccess(sessionStorage)
  /\ status' = "completed"
  /\ pc' = "done"
  /\ UNCHANGED <<otherVars, config, env, run, orphans, sdkNext, budget>>

\* the user answers the "Would you like to retry?" dialog
RetryConfirm(retryConfirmed) ==
  /\ pc = "retry-confirm"
  /\ IF retryConfirmed
     THEN /\ budget > 0
          /\ budget' = budget - 1
          /\ status' = "loading"
          /\ pc' = "start"
     ELSE /\ pc' = "done"
          /\ UNCHANGED <<status, budget>>
  /\ UNCHANGED <<otherVars, config, env, sessionStorage, run, orphans, sdkNext>>

\* handleCancel: the Cancel button is rendered while status is running
Cancel ==
  /\ status = "running"
  /\ ~run.aborted
  /\ run' = [run EXCEPT !.aborted = TRUE]
  /\ UNCHANGED <<otherVars, config, env, sessionStorage, status, pc, orphans, sdkNext, budget>>

\* the page is loaded again in the same tab: sessionStorage survives, every
\* closure and pending request of the old page is gone
Reload ==
  /\ budget > 0
  /\ budget' = budget - 1
  /\ status' = "loading"
  /\ pc' = "start"
  /\ run' = NewRun
  /\ orphans' = {}
  /\ sdkNext' = AssessFirstQuestion
  /\ UNCHANGED <<otherVars, config, env, sessionStorage>>

Next ==
  \/ RunStart
  \/ \E pageFetch \in {"resolves", "throws"}, keyConfigured \in BOOLEAN,
        upstream \in UpstreamAnswers, resumeConfirmed \in BOOLEAN :
       RateLimitResolves(RateLimitData(pageFetch, keyConfigured, upstream), resumeConfirmed)
  \/ SdkAsk
  \/ \E c \in Closures : DelayDone(c)
  \/ \E c \in Closures, answer \in env.letters : ProviderAnswers(c, answer)
  \/ \E c \in Closures, kind \in FailuresOf(config) : ProviderFails(c, kind)
  \/ \E c \in Closures : BackoffDone(c)
  \/ \E code \in {"QUESTION_TIMEOUT", "PLATFORM"} : SdkThrows(code)
  \/ AssessCompletes
  \/ \E retryConfirmed \in BOOLEAN : RetryConfirm(retryConfirmed)
  \/ Cancel
  \/ Reload

Spec == Init /\ [][Next]_vars

SpecRetry == InitRetry /\ [][Next]_vars

SpecLong == InitLong /\ [][Next]_vars

(***************************************************************************)
(* The proxy applies extractAnswerLetter to the text of the provider.  The *)
(* texts are the concatenations of at most MaxTokens of these tokens.      *)
(***************************************************************************)
Tokens ==
  { <<"T","h","e"," ","a","n","s","w","e","r"," ","i","s"," ">>,
    <<"I"," ","c","h","o","o","s","e"," ">>,
    <<"o","p","t","i","o","n"," ">>,
    <<"C">>,
    <<"a">>,
    <<"B">>,
    <<"d">>,
    <<" ">>,
    <<"."," ","B"," ","-"," ","n","o">>,
    <<","," ","n","o","t"," ","o","p","t","i","o","n"," ","a">> }

RECURSIVE Concat(_)
Concat(parts) == IF parts = <<>> THEN <<>> ELSE Head(parts) \o Concat(Tail(parts))

RawResponses ==
  { Concat(parts) : parts \in UNION { [1..n -> Tokens] : n \in 1..MaxTokens } }

InitExtract ==
  /\ InitCommon
  /\ config = NoConfig
  /\ env = [total |-> NumQuestions, letters |-> {"A"}]
  /\ budget = 0
  /\ rawResponse \in RawResponses
  /\ extracted = "pending"
  /\ request = NoRequest
  /\ response = NoResponse
  /\ SdkIdle /\ ErrorIdle /\ FormIdle

\* const extractedLetter = extractAnswerLetter(rawResponse)
ProxyExtracts ==
  /\ extracted = "pending"
  /\ extracted' = extractAnswerLetter(rawResponse)
  /\ UNCHANGED <<rawResponse, request, response, pageVars, sdkVars, errorVars, formVars>>

NextExtract == ProxyExtracts

SpecExtract == InitExtract /\ [][NextExtract]_vars

(***************************************************************************)
(* The proxy routes /api/proxy/openai, /api/proxy/gemini and               *)
(* /api/proxy/anthropic serve one request: they validate the body, send    *)
(* the vendor request and turn the vendor's reply into their response.     *)
(***************************************************************************)
ProxyProviders == {"openai", "gemini", "anthropic"}

\* String.prototype.startsWith
startsWith(str, prefix) ==
  /\ Len(prefix) <= Len(str)
  /\ \A k \in 1..Len(prefix) : str[k] = prefix[k]

\* keyPrefix of the PROVIDERS table
keyPrefix(provider) ==
  CASE provider = "openai" -> <<"s","k","-">>
    [] provider = "anthropic" -> <<"s","k","-","a","n","t","-">>
    [] provider = "gemini" -> <<"A","I","z","a">>
    [] OTHER -> <<"x","a","i","-">>

ApiKeys ==
  { <<>>,
    <<"s","k","-","1">>,
    <<"s","k","-","a","n","t","-","1">>,
    <<"A","I","z","a","1">>,
    <<"a","i","z","a","1">>,
    <<"1","s","k","-">>,
    <<"x","a","i","-","1">> }

Roles == {"user", "assistant"}

\* the message arrays of at most MaxMessages entries
MessageLists ==
  UNION { [1..n -> [role : Roles, content : {<<"Q">>}]] : n \in 0..MaxMessages }

ProxyRequests ==
  { [provider |-> p, apiKey |-> k, hasModel |-> m, hasMessages |-> TRUE,
     messages |-> ms, hasUserMessage |-> u] :
      p \in ProxyProviders, k \in ApiKeys, m \in BOOLEAN, ms \in MessageLists,
      u \in BOOLEAN } \cup
  { [provider |-> p, apiKey |-> k, hasModel |-> m, hasMessages |-> FALSE,
     messages |-> <<>>, hasUserMessage |-> u] :
      p \in ProxyProviders, k \in ApiKeys, m \in BOOLEAN, u \in BOOLEAN }

NoVendorRequest == [vendor |-> "none"]

\* if (body.messages && Array.isArray(body.messages)) handleConversationalMode
ConversationalBody(req) == req.hasMessages

\* const windowedMessages = messages.slice(-MAX_CONTEXT_MESSAGES)
windowedMessages(messages) == SliceLast(messages, MAX_CONTEXT_MESSAGES)

\* the validation of handleConversationalMode and handleLegacyMode of the
\* OpenAI and Gemini routes: the error returned, "ok" when the vendor is called
ValidateWithPrefix(req, prefix) ==
  IF ConversationalBody(req)
  THEN IF req.apiKey = <<>> \/ req.messages = <<>> THEN "missing_fields"
       ELSE IF ~startsWith(req.apiKey, prefix) THEN "invalid_key_format"
       ELSE IF windowedMessages(req.messages)[Len(windowedMessages(req.messages))].role # "user"
            THEN "not_ending_with_user"
       ELSE "ok"
  ELSE IF req.apiKey = <<>> \/ ~req.hasUserMessage THEN "missing_fields"
       ELSE IF ~startsWith(req.apiKey, prefix) THEN "invalid_key_format"
       ELSE "ok"

\* the validation of the Anthropic route
ValidateAnthropic(req) ==
  IF req.apiKey = <<>> \/ ~req.hasModel \/ ~req.hasUserMessage THEN "missing_fields"
  ELSE "ok"

Validate(req) ==
  CASE req.provider = "openai" -> ValidateWithPrefix(req, <<"s","k","-">>)
    [] req.provider = "gemini" -> ValidateWithPrefix(req, <<"A","I","z","a">>)
    [] OTHER -> ValidateAnthropic(req)

\* the contents array the Gemini route builds from the windowed messages
GeminiContents(messages) ==
  << [role |-> "user", parts |-> <<"System instructions">>],
     [role |-> "model", parts |-> <<"Understood">>] >> \o
  [i \in 1..Len(windowedMessages(messages)) |->
     [role |-> IF windowedMessages(messages)[i].role = "assistant" THEN "model" ELSE "user",
      parts |-> windowedMessages(messages)[i].content]]

\* the request the route sends to the vendor
VendorRequest(req) ==
  CASE req.provider = "openai" ->
         [vendor |-> "api.openai.com", apiKey |-> req.apiKey,
          turns |-> IF ConversationalBody(req)
                    THEN <<"system">> \o
                         [i \in 1..Len(windowedMessages(req.messages)) |->
                            windowedMessages(req.messages)[i].role]
                    ELSE <<"system", "user">>]
    [] req.provider = "gemini" ->
         [vendor |-> "generativelanguage.googleapis.com", apiKey |-> req.apiKey,
          turns |-> IF ConversationalBody(req)
                    THEN [i \in 1..Len(GeminiContents(req.messages)) |->
                            GeminiContents(req.messages)[i].role]
                    ELSE <<"user">>]
    [] OTHER ->
         [vendor |-> "api.anthropic.com", apiKey |-> req.apiKey, turns |-> <<"user">>]

\* the page is not running an assessment
PageIdle ==
  /\ InitCommon
  /\ config = NoConfig
  /\ env = [total |-> NumQuestions, letters |-> {"A"}]
  /\ budget = 0

InitProxy ==
  /\ PageIdle
  /\ rawResponse = <<>>
  /\ extracted = "none"
  /\ request \in ProxyRequests
  /\ response = NoResponse
  /\ SdkIdle /\ ErrorIdle /\ FormIdle

\* POST up to the fetch of the vendor, or to the 400 of the validation
ProxyReceives ==
  /\ request # NoRequest
  /\ response = NoResponse
  /\ response' =
       IF Validate(request) = "ok"
       THEN [status |-> 0, error |-> "none", response |-> <<>>,
             vendorRequest |-> VendorRequest(request)]
       ELSE [status |-> 400, error |-> Validate(request), response |-> <<>>,
             vendorRequest |-> NoVendorRequest]
  /\ UNCHANGED <<rawResponse, extracted, request, pageVars, sdkVars, errorVars, formVars>>

VendorTexts == { <<"b">>, <<"n","o">> }

VendorOutcomes(provider) ==
  CASE provider = "openai" -> {"text", "api_error", "empty", "timeout"}
    [] provider = "gemini" -> {"text", "api_error", "empty", "timeout", "safety"}
    [] OTHER -> {"text", "api_error", "empty"}

\* POST from the vendor's reply to the response of the route
VendorReplies(outcome, text) ==
  /\ response # NoResponse
  /\ response.status = 0
  /\ outcome \in VendorOutcomes(request.provider)
  /\ IF outcome = "text"
     THEN IF request.provider = "anthropic"
          THEN /\ rawResponse' = text
               /\ UNCHANGED extracted
               /\ response' = [response EXCEPT !.status = 200, !.response = text]
          ELSE LET extractedLetter == extractAnswerLetter(text)
               IN /\ rawResponse' = text
                  /\ extracted' = extractedLetter
                  /\ response' =
                       [response EXCEPT
                          !.status = 200,
                          !.response = IF extractedLetter # "null"
                                       THEN <<extractedLetter>> ELSE text]
     ELSE /\ UNCHANGED <<rawResponse, extracted>>
          /\ response' =
               CASE outcome = "api_error" ->
                      [response EXCEPT !.status = 429, !.error = "api_error"]
                 [] outcome = "timeout" ->
                      [response EXCEPT !.status = 504, !.error = "timeout"]
                 [] outcome = "safety" ->
                      [response EXCEPT !.status = 400, !.error = "safety_block"]
                 [] OTHER ->
                      IF request.provider = "anthropic"
                      THEN [response EXCEPT !.status = 200]
                      ELSE [response EXCEPT !.status = 500, !.error = "empty_response"]
  /\ UNCHANGED <<request, pageVars, sdkVars, errorVars, formVars>>

NextProxy ==
  \/ ProxyReceives
  \/ \E outcome \in {"text", "api_error", "empty", "timeout", "safety"},
        text \in VendorTexts : VendorReplies(outcome, text)

SpecProxy == InitProxy /\ [][NextProxy]_vars

(***************************************************************************)
(* GET /api/sdk/config shuffles the answers of every question and signs    *)
(* the letter of the correct answer of each into the mapping token; the    *)
(* scoring endpoint verifies the token and scores the responses with it.   *)
(***************************************************************************)
\* DEMO_QUESTIONS: every question has four answers, and answer B scores 1
DEMO_QUESTIONS ==
  [q \in 1..4 |->
     [id |-> <<"q1", "q2", "q3", "q4">>[q],
      answers |-> << [optionLetter |-> "A", answerText |-> "text A", score |-> 0],
                     [optionLetter |-> "B", answerText |-> "text B", score |-> 1],
                     [optionLetter |-> "C", answerText |-> "text C", score |-> 0],
                     [optionLetter |-> "D", answerText |-> "text D", score |-> 0] >>]]

\* the questions served: the first NumDemoQuestions of DEMO_QUESTIONS
questions == SubSeq(DEMO_QUESTIONS, 1, NumDemoQuestions)

newLetters == <<"A", "B", "C", "D">>

\* [shuffled[i], shuffled[j]] = [shuffled[j], shuffled[i]], indices from 0
Swap(shuffled, i, j) ==
  [shuffled EXCEPT ![i + 1] = shuffled[j + 1], ![j + 1] = shuffled[i + 1]]

\* the values Math.floor(Math.random() * (i + 1)) can take, for i = 3, 2, 1
RandomDraws == { js \in [1..3 -> 0..3] : \A i \in 1..3 : js[i] <= i }

\* for (let i = shuffled.length - 1; i > 0; i--) with j = js[i]
RECURSIVE FisherYates(_, _, _)
FisherYates(shuffled, i, js) ==
  IF i > 0 THEN FisherYates(Swap(shuffled, i, js[i]), i - 1, js) ELSE shuffled

\* the letter of the answer the question's own optionLetter marks as correct
correctLetter_Original(shuffled) ==
  LET hits == { i \in 1..Len(shuffled) : shuffled[i].score > 0 }
  IN IF hits = {} THEN "D" ELSE shuffled[Least(hits)].optionLetter

\* const correctIndex = shuffled.findIndex((a) => a.score > 0);
\* const correctLetter = newLetters[correctIndex] || "D";
correctLetter(shuffled) ==
  LET hits == { i \in 1..Len(shuffled) : shuffled[i].score > 0 }
  IN IF hits # {} /\ Least(hits) <= Len(newLetters) THEN newLetters[Least(hits)] ELSE "D"

shuffleAnswers(answers, js) ==
  LET shuffled == FisherYates(answers, Len(answers) - 1, js)
  IN [shuffledAnswers |-> [i \in 1..Len(shuffled) |-> shuffled[i].answerText],
      correctLetter |-> correctLetter(shuffled)]

\* the payload of the signed token
SignJWT(questionMappings, questionCount) ==
  [mappings |-> questionMappings, questionCount |-> questionCount]

\* GET /api/sdk/config
GetConfig ==
  /\ served = NotServed
  /\ \E draws \in [1..Len(questions) -> RandomDraws] :
     LET shuffles == [q \in 1..Len(questions) |-> shuffleAnswers(questions[q].answers, draws[q])]
         ids == { questions[q].id : q \in 1..Len(questions) }
         questionMappings ==
           [id \in ids |->
              shuffles[CHOOSE q \in 1..Len(questions) : questions[q].id = id].correctLetter]
         processedQuestions ==
           [q \in 1..Len(questions) |->
              [id |-> questions[q].id, answers |-> shuffles[q].shuffledAnswers]]
     IN served' = [success |-> TRUE,
                   mappingToken |-> SignJWT(questionMappings, Len(processedQuestions)),
                   questions |-> processedQuestions]
  /\ UNCHANGED <<assessed, pageVars, proxyVars, errorVars, formVars>>

\* the answers the SDK posts: a letter, a letter in lower case with a blank, and
\* a text in which extractAnswerLetter finds no letter
ScoreAnswers == { <<"A">>, <<"b", " ">>, <<"n", "o">> }

isCorrect_Lenient(userAnswer, correctAnswer) == userAnswer # <<>>

\* const isCorrect = userAnswer === correctAnswer
isCorrect(userAnswer, correctAnswer) == userAnswer = <<correctAnswer>>

\* one element of responses.map((r) => ...)
ScoreResponse(r, mappings) ==
  LET correctAnswer == mappings[r.questionId]
      userAnswer == trim(toUpperCase(r.answer))
      correct == isCorrect(userAnswer, correctAnswer)
  IN [questionId |-> r.questionId, userAnswer |-> userAnswer,
      correctAnswer |-> correctAnswer,
      isCorrect |-> correct,
      score |-> IF correct THEN 1 ELSE 0]

\* Math.round((correct / total) * 100)
Percentage(correct, total) == IF total > 0 THEN (200 * correct + total) \div (2 * total) ELSE 0

\* POST of the scoring endpoint: jwtVerify accepts the token ("ok") or rejects
\* it as expired or as tampered with
PostAssess ==
  /\ served # NotServed
  /\ assessed = NotAssessed
  /\ \E verdict \in {"ok", "expired", "tampered"} :
       IF verdict # "ok"
       THEN assessed' =
              [success |-> FALSE, status |-> 401,
               code |-> IF verdict = "expired" THEN "TOKEN_EXPIRED" ELSE "TOKEN_INVALID"]
       ELSE \E answers \in [1..Len(served.questions) -> ScoreAnswers] :
              LET responses ==
                    [q \in 1..Len(served.questions) |->
                       [questionId |-> served.questions[q].id, answer |-> answers[q]]]
                  scoredResponses ==
                    [i \in 1..Len(responses) |->
                       ScoreResponse(responses[i], served.mappingToken.mappings)]
                  totalCorrect ==
                    Cardinality({ i \in 1..Len(scoredResponses) : scoredResponses[i].isCorrect })
              IN assessed' =
                   [success |-> TRUE, status |-> 200, code |-> "none",
                    responses |-> responses,
                    results |-> [overall |-> [correct |-> totalCorrect,
                                              total |-> Len(scoredResponses),
                                              percentage |-> Percentage(totalCorrect,
                                                                        Len(scoredResponses))],
                                 responses |-> scoredResponses]]
  /\ UNCHANGED <<served, pageVars, proxyVars, errorVars, formVars>>

InitSdk ==
  /\ PageIdle
  /\ ProxyIdle /\ ErrorIdle /\ FormIdle
  /\ served = NotServed
  /\ assessed = NotAssessed

NextSdk == GetConfig \/ PostAssess

SpecSdk == InitSdk /\ [][NextSdk]_vars

(***************************************************************************)
(* getErrorMessage(error) turns the error caught by runAssessment into the *)
(* text shown on the page.  A text is a sequence of characters; the lock   *)
(* emoji is the one-element text <<"lock">>.                               *)
(***************************************************************************)
PlatformCodes == {"INVALID_KEY", "RATE_LIMITED", "RATE_LIMIT_EXCEEDED", "SAFETY_LIMIT"}

\* messages of errors thrown by the provider adapters: the fallback texts of
\* callAI, texts of the proxies and texts written by the vendor
ProviderMessages ==
  { <<"G","e","m","i","n","i"," ","A","P","I"," ","e","r","r","o","r",
      ":"," ","4","2","9">>,
    <<"O","p","e","n","A","I"," ","A","P","I"," ","e","r","r","o","r",
      ":"," ","4","0","1">>,
    <<"R","a","t","e"," ","l","i","m","i","t"," ","r","e","a","c","h",
      "e","d"," ","f","o","r"," ","m","o","d","e","l"," ","a","s","s","e",
      "s","s","m","e","n","t","-","v","1",":"," ","t","o","o"," ","m","a",
      "n","y"," ","r","e","q","u","e","s","t","s"," ","p","e","r"," ","m",
      "i","n",","," ","s","e","e"," ","a","c","c","o","u","n","t","/","r",
      "a","t","e","-","l","i","m","i","t","s">>,
    <<"Y","o","u"," ","e","x","c","e","e","d","e","d"," ","y","o","u",
      "r"," ","c","u","r","r","e","n","t"," ","q","u","o","t","a">>,
    <<"f","e","t","c","h"," ","f","a","i","l","e","d">>,
    <<"m","o","d","e","l"," ","g","p","t","-","9"," ","n","o","t"," ",
      "f","o","u","n","d">>,
    <<"A","n","t","h","r","o","p","i","c"," ","A","P","I"," ","e","r",
      "r","o","r",":"," ","5","0","0">>,
    <<"R","e","q","u","e","s","t"," ","f","o","r","b","i","d","d","e",
      "n">>,
    <<"R","e","s","p","o","n","s","e"," ","b","l","o","c","k","e","d",
      " ","b","y"," ","G","e","m","i","n","i"," ","s","a","f","e","t","y",
      " ","f","i","l","t","e","r","s">>,
    <<>> }

\* messages of errors thrown by the SDK client
PlatformMessages ==
  { <<"D","e","m","o"," ","t","i","e","r"," ","l","i","m","i","t"," ",
      "r","e","a","c","h","e","d">>,
    <<"R","a","t","e"," ","l","i","m","i","t"," ","e","x","c","e","e",
      "d","e","d">>,
    <<"H","e","a","l","t","h"," ","C","h","e","c","k"," ","K","e","y",
      " ","n","o","t"," ","c","o","n","f","i","g","u","r","e","d">>,
    <<"I","n","v","a","l","i","d"," ","k","e","y">>,
    <<"u","n","a","u","t","h","o","r","i","z","e","d">>,
    <<>> }

\* the errors getErrorMessage is called with: origin tells who threw it
Errors ==
  { [origin |-> "provider", code |-> "none", status |-> st, tier |-> "none", message |-> m] :
      st \in {0, 401, 403, 429, 500}, m \in ProviderMessages } \cup
  { [origin |-> "platform", code |-> c, status |-> st, tier |-> tr, message |-> m] :
      c \in PlatformCodes \cup {"QUESTION_TIMEOUT", "OVERALL_TIMEOUT", "none"},
      st \in {0, 401, 429}, tr \in {"none", "DEMO"}, m \in PlatformMessages }

\* the fixed texts of getErrorMessage, by the branch that returns them
InvalidHealthCheckKeyText ==
  <<"I","n","v","a","l","i","d"," ","H","e","a","l","t","h"," ","C","h",
    "e","c","k"," ","K","e","y">>
DemoLimitHourlyText ==
  <<"lock"," ","D","e","m","o"," ","A","s","s","e","s","s","m","e","n",
    "t"," ","L","i","m","i","t"," ","R","e","a","c","h","e","d"," ","(",
    "5","/","h","o","u","r",")">>
AssessmentLimitText ==
  <<"lock"," ","A","s","s","e","s","s","m","e","n","t"," ","L","i","m",
    "i","t"," ","R","e","a","c","h","e","d">>
SafetyLimitText ==
  <<"lock"," ","S","a","f","e","t","y"," ","L","i","m","i","t"," ","R",
    "e","a","c","h","e","d">>
DemoLimitText ==
  <<"lock"," ","D","e","m","o"," ","A","s","s","e","s","s","m","e","n",
    "t"," ","L","i","m","i","t"," ","R","e","a","c","h","e","d">>
QuestionTimeoutText ==
  <<"timer"," ","Q","u","e","s","t","i","o","n"," ","T","i","m","e","o",
    "u","t">>
OverallTimeoutText ==
  <<"timer"," ","A","s","s","e","s","s","m","e","n","t"," ","T","i","m",
    "e","o","u","t">>
InvalidApiKeyText ==
  <<"key"," ","I","n","v","a","l","i","d"," ","A","P","I"," ","K","e",
    "y">>
AccessDeniedText ==
  <<"key"," ","A","P","I"," ","A","c","c","e","s","s"," ","D","e","n",
    "i","e","d">>
ProviderRateLimitText ==
  <<"warning"," ","A","I"," ","P","r","o","v","i","d","e","r"," ","R",
    "a","t","e"," ","L","i","m","i","t">>
InsufficientCreditsText ==
  <<"card"," ","I","n","s","u","f","f","i","c","i","e","n","t"," ","C",
    "r","e","d","i","t","s">>
NetworkErrorText ==
  <<"globe"," ","N","e","t","w","o","r","k"," ","E","r","r","o","r">>
ModelNotFoundText ==
  <<"cross"," ","M","o","d","e","l"," ","N","o","t"," ","F","o","u","n",
    "d">>
UnexpectedErrorText ==
  <<"A","n"," ","u","n","e","x","p","e","c","t","e","d"," ","e","r","r",
    "o","r"," ","o","c","c","u","r","r","e","d",".">>

\* err.message?.includes(text)
MessageIncludes(e, text) == Includes(e.message, text)

getErrorMessage(e) ==
  IF e.code = "INVALID_KEY" THEN InvalidHealthCheckKeyText
  ELSE IF e.code \in {"RATE_LIMITED", "RATE_LIMIT_EXCEEDED"}
  THEN IF MessageIncludes(e, 
            <<"D","e","m","o"," ","t","i","e","r">>) \/ e.tier = "DEMO"
       THEN DemoLimitHourlyText
       ELSE AssessmentLimitText
  ELSE IF e.code = "SAFETY_LIMIT" THEN SafetyLimitText
  ELSE IF e.code = "QUESTION_TIMEOUT" THEN QuestionTimeoutText
  ELSE IF e.code = "OVERALL_TIMEOUT" THEN OverallTimeoutText
  ELSE IF \/ e.status = 401
          \/ MessageIncludes(e, <<"4","0","1">>)
          \/ MessageIncludes(e, 
            <<"u","n","a","u","t","h","o","r","i","z","e","d">>)
  THEN InvalidApiKeyText
  ELSE IF \/ e.status = 403
          \/ MessageIncludes(e, <<"4","0","3">>)
          \/ MessageIncludes(e, <<"f","o","r","b","i","d","d","e","n">>)
  THEN AccessDeniedText
  ELSE IF \/ e.status = 429
          \/ MessageIncludes(e, <<"r","a","t","e">>)
          \/ MessageIncludes(e, <<"t","o","o"," ","m","a","n","y">>)
  THEN IF \/ MessageIncludes(e, <<"D","e","m","o"," ","t","i","e","r">>)
          \/ MessageIncludes(e, <<"a","s","s","e","s","s","m","e","n","t">>)
       THEN DemoLimitText
       ELSE ProviderRateLimitText
  ELSE IF \/ MessageIncludes(e, 
            <<"i","n","s","u","f","f","i","c","i","e","n","t">>)
          \/ MessageIncludes(e, <<"c","r","e","d","i","t">>)
          \/ MessageIncludes(e, <<"q","u","o","t","a">>)
  THEN InsufficientCreditsText
  ELSE IF \/ MessageIncludes(e, <<"n","e","t","w","o","r","k">>)
          \/ MessageIncludes(e, <<"f","e","t","c","h">>)
          \/ MessageIncludes(e, 
            <<"E","C","O","N","N","R","E","F","U","S","E","D">>)
  THEN NetworkErrorText
  ELSE IF MessageIncludes(e, 
            <<"m","o","d","e","l">>) /\ MessageIncludes(e, <<"n","o","t",
            " ","f","o","u","n","d">>)
  THEN ModelNotFoundText
  ELSE IF MessageIncludes(e, 
            <<"A","n","t","h","r","o","p","i","c">>) THEN e.message
  ELSE IF MessageIncludes(e, 
            <<"H","e","a","l","t","h"," ","C","h","e","c","k"," ","K","e",
            "y"," ","n","o","t"," ","c","o","n","f","i","g","u","r","e",
            "d">>)
  THEN e.message
  ELSE IF e.message # <<>> THEN e.message
  ELSE UnexpectedErrorText

InitError ==
  /\ PageIdle
  /\ ProxyIdle /\ SdkIdle /\ FormIdle
  /\ caught \in Errors
  /\ shown = <<>>

\* setError(getErrorMessage(err)) of the catch block
ShowError ==
  /\ caught # NoError
  /\ shown = <<>>
  /\ shown' = getErrorMessage(caught)
  /\ UNCHANGED <<caught, pageVars, proxyVars, sdkVars, formVars>>

NextError == ShowError

SpecError == InitError /\ [][NextError]_vars

(***************************************************************************)
(* The configure page (configure/page.tsx): the form, the Verify button    *)
(* and the validation request it may leave in flight.                      *)
(***************************************************************************)
\* the value column of the PROVIDERS table
PROVIDERS == {"openai", "anthropic", "gemini", "grok"}

Pad(n) == [k \in 1..n |-> "x"]

\* texts the key input can hold: for each provider one key of the accepted
\* format, a too short Anthropic key and a key with no known prefix
FormKeys ==
  { <<>>,
    <<"s","k","-">> \o Pad(5),
    <<"s","k","-","a","n","t","-">> \o Pad(93),
    <<"s","k","-","a","n","t","-">> \o Pad(92),
    <<"A","I","z","a">> \o Pad(31),
    <<"x","a","i","-">> \o Pad(16),
    <<"b","a","d">> }

\* the provider a saved prompt carries, if any
SavedPromptProviders == PROVIDERS \cup {"undefined"}

\* the format tests of validateApiKey for the providers validated in the browser
isValidFormat(provider, apiKey) ==
  CASE provider = "anthropic" ->
         startsWith(apiKey, <<"s","k","-","a","n","t","-">>) /\ Len(apiKey) >= 100
    [] provider = "gemini" ->
         startsWith(apiKey, <<"A","I","z","a">>) /\ Len(apiKey) >= 35
    [] provider = "grok" ->
         startsWith(apiKey, <<"x","a","i","-">>) /\ Len(apiKey) >= 20
    [] OTHER -> FALSE

\* keyValid is boolean | null
KeyValidOf(b) == IF b THEN "true" ELSE "false"

\* the pair a verdict was computed on (not program state: it records which
\* config the closure that called setKeyValid had captured)
Pair(provider, apiKey) == [provider |-> provider, apiKey |-> apiKey]

NoPair == [provider |-> "none", apiKey |-> <<>>]

\* useState defaults, then the useEffect that loads the saved config and
\* always clears the key
InitConfigure ==
  /\ PageIdle
  /\ ProxyIdle /\ SdkIdle /\ ErrorIdle
  /\ \E provider \in PROVIDERS, systemPrompt \in BOOLEAN :
       form = [provider |-> provider, apiKey |-> <<>>, systemPrompt |-> systemPrompt,
               keyValid |-> "null", validating |-> FALSE, validated |-> NoPair]
  /\ validation = NoValidation

\* onChange of the key input
EditKey(apiKey) ==
  /\ form' = [form EXCEPT !.apiKey = apiKey, !.keyValid = "null"]
  /\ UNCHANGED <<validation, pageVars, proxyVars, sdkVars, errorVars>>

\* onChange of the system prompt textarea
EditPrompt(systemPrompt) ==
  /\ form' = [form EXCEPT !.systemPrompt = systemPrompt]
  /\ UNCHANGED <<validation, pageVars, proxyVars, sdkVars, errorVars>>

handleProviderChange(provider) ==
  /\ form' = [form EXCEPT !.provider = provider, !.apiKey = <<>>, !.keyValid = "null"]
  /\ UNCHANGED <<validation, pageVars, proxyVars, sdkVars, errorVars>>

\* onSelect of the saved prompts library
SelectSavedPrompt(provider) ==
  /\ form' = [form EXCEPT !.systemPrompt = TRUE,
                          !.provider = IF provider = "undefined" THEN @ ELSE provider]
  /\ UNCHANGED <<validation, pageVars, proxyVars, sdkVars, errorVars>>

\* the Verify button (enabled unless validating or the key is empty); the
\* function runs to its first await, or to its end when it has none
validateApiKey ==
  /\ ~form.validating
  /\ form.apiKey # <<>>
  /\ IF form.provider = "openai"
     THEN IF ~startsWith(form.apiKey, <<"s","k","-">>)
          THEN /\ form' = [form EXCEPT !.keyValid = "false", !.validating = FALSE,
                                       !.validated = Pair(form.provider, form.apiKey)]
               /\ UNCHANGED validation
          ELSE /\ form' = [form EXCEPT !.validating = TRUE]
               /\ validation' = [pending |-> TRUE, provider |-> form.provider,
                                 apiKey |-> form.apiKey]
     ELSE /\ form' = [form EXCEPT
                        !.keyValid = KeyValidOf(isValidFormat(form.provider, form.apiKey)),
                        !.validating = FALSE,
                        !.validated = Pair(form.provider, form.apiKey)]
          /\ UNCHANGED validation
  /\ UNCHANGED <<pageVars, proxyVars, sdkVars, errorVars>>

\* the fetch of api.openai.com/v1/models settles: setKeyValid(response.ok) when
\* it resolves, the catch block on the config the closure captured when it
\* rejects, then the finally block
FetchOutcomes == {"ok", "not_ok", "rejects"}

FetchSettles(outcome) ==
  /\ validation # NoValidation
  /\ form' = [form EXCEPT
                !.keyValid =
                  IF outcome = "rejects"
                  THEN KeyValidOf(isValidFormat(validation.provider, validation.apiKey))
                  ELSE KeyValidOf(outcome = "ok"),
                !.validating = FALSE,
                !.validated = Pair(validation.provider, validation.apiKey)]
  /\ validation' = NoValidation
  /\ UNCHANGED <<pageVars, proxyVars, sdkVars, errorVars>>

handleClearAll ==
  /\ form' = [form EXCEPT !.provider = "openai", !.apiKey = <<>>,
                          !.systemPrompt = FALSE, !.keyValid = "null"]
  /\ UNCHANGED <<validation, pageVars, proxyVars, sdkVars, errorVars>>

\* disabled={!isReady || ...} of the Start button
isReady == form.apiKey # <<>> /\ form.systemPrompt /\ form.keyValid = "true"

NextConfigure ==
  \/ \E apiKey \in FormKeys : EditKey(apiKey)
  \/ \E systemPrompt \in BOOLEAN : EditPrompt(systemPrompt)
  \/ \E provider \in PROVIDERS : handleProviderChange(provider)
  \/ \E provider \in SavedPromptProviders : SelectSavedPrompt(provider)
  \/ validateApiKey
  \/ \E outcome \in FetchOutcomes : FetchSettles(outcome)
  \/ handleClearAll

SpecConfigure == InitConfigure /\ [][NextConfigure]_vars

(***************************************************************************)
(* Properties.                                                             *)
(***************************************************************************)
NonSystem(messages) == SelectSeq(messages, LAMBDA m : m.role # "system")

\* the conversation log of closure c with the question being asked as its last entry
LogWithPending(c) ==
  IF config.provider = "openai"
  THEN Append(c.conversationHistory, UserMsg(c.question))
  ELSE c.conversationHistory

\* C1: in conversational mode every provider call gets at most 40 user/assistant
\* messages, after at most one leading system message, and when the log with the
\* pending question is longer than 40 messages the window is its 40 latest entries.
C1_WindowIsLatest40 ==
  \A c \in Closures :
    (Conversational(config) /\ c.cb = "call") =>
      LET window == NonSystem(c.windowedHistory)
      IN /\ Len(window) <= 40
         /\ Len(c.windowedHistory) <= Len(window) + 1
         /\ Len(LogWithPending(c)) > 40 => window = SliceLast(LogWithPending(c), 40)

\* C2: at most one provider call is in flight at any moment of a page session.
C2_OneCallInFlight ==
  Cardinality({c \in Closures : c.cb = "call"}) <= 1

\* C3: callAIWithRetry sleeps 2000, 4000, 8000 ms before its 2nd, 3rd and 4th
\* adapter call and never makes a 5th; a result after n failures comes after
\* exactly n sleeps; a failure of the 4th call is thrown as it is.
C3_RetryLaw ==
  \A c \in Closures :
    /\ c.calls <= 4
    /\ c.retryCount <= 3
    /\ c.sleeps = SubSeq(<<2000, 4000, 8000>>, 1, Len(c.sleeps))
    /\ c.cb = "call" => Len(c.sleeps) = c.calls - 1
    /\ c.cb = "backoff" => Len(c.sleeps) = c.calls /\ c.calls <= 3
    /\ c.ret = "ok" => Len(c.sleeps) = c.calls - 1
    /\ (c.ret = "err" /\ c.calls = 4) => (c.thrown = c.lastErr /\ Len(c.sleeps) = 3)

C3_Witness ==
  \E c \in Closures :
    c.ret = "err" /\ c.calls = 4 /\ c.thrown = "rate_limit" /\ c.sleeps = <<2000, 4000, 8000>>

\* C4: a failure that is no rate-limit error (401, invalid key format, safety
\* block, empty response, timeout) is never retried: no backoff follows it and
\* it is thrown at once.
C4_NonRateLimitNotRetried ==
  \A c \in Closures :
    c.lastErr \notin {"none", "rate_limit"} =>
      (c.cb = "idle" /\ c.ret = "err" /\ c.thrown = c.lastErr)

C6_NoCallAfterCancel ==
  [][ (run.rl = "passed" /\ run'.rl = "passed" /\ run.aborted /\ run.cb \in {"idle", "delay"})
        => run'.cb # "call" ]_vars

\* C7: status running and every provider call of a closure come after that
\* closure's rate-limit check passed; while the check is pending the status is
\* checking-rate-limit; after a denial the status is rate-limited, the run is
\* over and the closure has made no call.
C7_RateLimitGate ==
  /\ status = "running" => run.rl = "passed"
  /\ (run.cb # "idle" \/ run.calls > 0 \/ Len(run.partialResults) > 0) => run.rl = "passed"
  /\ run.rl = "pending" => (status = "checking-rate-limit" /\ pc = "ratelimit")
  /\ run.rl = "denied" => (status = "rate-limited" /\ pc = "done")
  /\ \A o \in orphans : o.rl = "passed"

C7_Witness ==
  run.rl = "denied" /\ status = "rate-limited" /\ sessionStorage.assessment_partial_results.set

\* a step that loads the page again: the component and its state are new
IsReloadStep == Reload

ListedEdges ==
  { <<"loading", "checking-rate-limit">>, <<"checking-rate-limit", "running">>,
    <<"checking-rate-limit", "rate-limited">>, <<"running", "completed">>,
    <<"running", "error">>, <<"running", "cancelled">> }

\* C8 as stated: within a page session the status changes only along the
\* listed edges.
C8_OnlyListedEdges ==
  [][ (status' # status /\ ~IsReloadStep) => <<status, status'>> \in ListedEdges ]_vars

\* C8 amended: the status changes only along the listed edges, loading -> error
\* (no stored configuration) and error -> loading (manual retry accepted).
C8_StatusEdges ==
  [][ (status' # status /\ ~IsReloadStep) =>
        <<status, status'>> \in
          ListedEdges \cup { <<"loading", "error">>, <<"error", "loading">> } ]_vars

C8_Witness ==
  status = "completed" /\ orphans # {}

\* C9: the partial-results list of every closure, and the stored copy, has
\* questionIndex 0, 1, ..., n-1 in list order.
Contiguous(partialResults) ==
  \A i \in 1..Len(partialResults) : partialResults[i].questionIndex = i - 1

C9_ContiguousIndex ==
  /\ \A c \in Closures : Contiguous(c.partialResults) /\ c.questionIndex = Len(c.partialResults)
  /\ Contiguous(ParseResults(sessionStorage.assessment_partial_results.value))

C9_Witness ==
  run.resumed /\ run.ret = "ok" /\ Len(run.partialResults) >= 2

\* C10: in conversational mode a completed question has added exactly its
\* question and its answer to the conversation log, whatever the number of
\* retries, and a question whose call failed has added nothing.
C10_LogGrowsByTwo ==
  \A c \in Closures :
    (Conversational(config) /\ c.rl = "passed") =>
      /\ c.ret = "ok" =>
           /\ Len(c.conversationHistory) = c.logBefore + 2
           /\ c.conversationHistory[c.logBefore + 1] = UserMsg(c.question)
           /\ c.conversationHistory[c.logBefore + 2].role = "assistant"
      /\ (c.ret = "err" /\ c.thrown # "cancelled") =>
           Len(c.conversationHistory) = c.logBefore

\* C11: when a question has been answered and the next one has not started, the
\* stored partial results are the in-memory list and the stored conversation
\* log is the in-memory log, in conversational and in isolated mode.
C11_StoreMirrorsMemory ==
  (run.rl = "passed" /\ run.cb = "idle" /\ run.ret = "ok" /\ pc \in {"assess", "submit"}) =>
    /\ sessionStorage.assessment_partial_results = Stored(StringifyResults(run.partialResults))
    /\ sessionStorage.assessment_history = Stored(StringifyMessages(run.conversationHistory))

\* the store holds a save of an earlier run
HoldsSave(store) == store.assessment_history.set \/ store.assessment_partial_results.set

\* C12: a run that starts while the store holds a save either resumes from it
\* (the user chose resume) or, the user having chosen discard, leaves the store
\* without saved log and saved partial results and starts at index 0 with
\* empty lists.
C12_ResumeOrDiscard ==
  [][ (pc = "ratelimit" /\ pc' = "assess" /\ HoldsSave(sessionStorage)) =>
        \/ run'.resumed
        \/ /\ ~HoldsSave(sessionStorage')
           /\ run'.questionIndex = 0
           /\ run'.partialResults = <<>>
           /\ run'.conversationHistory = <<>> ]_vars

\* C13: the first provider call of a resumed conversational run receives the
\* latest saved messages (all of them when they fit in the window) followed by
\* the new question.
C13_ResumeKeepsContext ==
  (Conversational(config) /\ run.resumed /\ run.cb = "call" /\ run.retryCount = 0
     /\ sdkNext = AssessFirstQuestion) =>
    LET saved == SubSeq(run.conversationHistory, 1, run.logBefore)
    IN NonSystem(run.windowedHistory)
         = SliceLast(Append(saved, UserMsg(run.question)), CONTEXT_WINDOW_SIZE * 2)

\* C14: a resumed run asks none of the questions already answered, and a
\* completed run holds exactly one partial result per question, entry i being
\* the answer to question i.
C14_ResumeContinues ==
  /\ (run.resumed /\ run.cb = "call") => run.question = Len(run.partialResults)
  /\ (status = "completed" /\ run.rl = "passed") =>
       /\ Len(run.partialResults) = env.total
       /\ \A i \in 1..Len(run.partialResults) : run.partialResults[i].question = i - 1

\* C15: a step that reaches status completed leaves the recovery store with no
\* saved log, no saved partial results and no saved error record, whatever it
\* held before; a step into error or cancelled leaves the saved log and the
\* saved partial results as they were.
C15_StoreEmptyWhenCompleted ==
  [][ /\ (status # "completed" /\ status' = "completed") =>
           /\ ~sessionStorage'.assessment_history.set
           /\ ~sessionStorage'.assessment_partial_results.set
           /\ ~sessionStorage'.assessment_error.set
      /\ (status = "running" /\ status' \in {"error", "cancelled"}) =>
           /\ sessionStorage'.assessment_history = sessionStorage.assessment_history
           /\ sessionStorage'.assessment_partial_results
                = sessionStorage.assessment_partial_results ]_vars

C15_Witness ==
  /\ status = "completed"
  /\ run.resumed
  /\ run.sleeps # <<>>
  /\ sessionStorage = EmptyStore

C17_KeyOnlyToVendor ==
  /\ pc = "ratelimit" => ~RateLimitRequest.apiKey
  /\ \A c \in Closures :
       (c.cb = "call" /\ CallRequest(config).apiKey) =>
         CallRequest(config).url \notin OwnBackendRoutes

\* C18: with the configuration absent, or without API key, or without system
\* prompt, no rate-limit check and no provider call is made, the status never
\* becomes running, and the run ends in status error.
C18_ConfigErrorsStopRun ==
  (~config.present \/ ~config.hasApiKey \/ ~config.hasSystemPrompt) =>
    /\ run.rl = "none"
    /\ \A c \in Closures : c.cb # "call"
    /\ status \in {"loading", "error"}
    /\ pc = "done" => status = "error"

\* the lower-case and upper-case letters a-d with their upper-case form
UpperOfAnswer ==
  [ch \in {"a", "b", "c", "d", "A", "B", "C", "D"} |->
     CASE ch \in {"a", "A"} -> "A" [] ch \in {"b", "B"} -> "B"
       [] ch \in {"c", "C"} -> "C" [] OTHER -> "D"]

\* C19: a text that is one letter a-d or A-D between whitespace is extracted as
\* that letter in upper case.
C19_SingleLetter ==
  (extracted \notin {"none", "pending"}) =>
    \A i \in 1..Len(rawResponse) :
      (/\ rawResponse[i] \in DOMAIN UpperOfAnswer
       /\ \A j \in 1..Len(rawResponse) : j # i => rawResponse[j] \in Whitespace)
        => extracted = UpperOfAnswer[rawResponse[i]]

C19_Witness ==
  rawResponse = <<" ", "a", " ">> /\ extracted = "A"

\* the texts that open with a recognized phrase and its letter, then end or go
\* on with prose that does not start with a word character
AnswerPhrases ==
  { <<"T","h","e"," ","a","n","s","w","e","r"," ","i","s"," ">>,
    <<"I"," ","c","h","o","o","s","e"," ">>,
    <<"o","p","t","i","o","n"," ">> }

\* C20: a text that opens with a recognized answer phrase and the letter X is
\* extracted as X, whatever letters the prose after the phrase holds.
C20_PhraseLetter ==
  (extracted \notin {"none", "pending"}) =>
    \A phrase \in AnswerPhrases :
      (/\ Len(rawResponse) > Len(phrase)
       /\ SubSeq(rawResponse, 1, Len(phrase)) = phrase
       /\ rawResponse[Len(phrase) + 1] \in DOMAIN UpperOfAnswer
       /\ ~IsWordChar(CharAt(rawResponse, Len(phrase) + 2)))
        => extracted = UpperOfAnswer[rawResponse[Len(phrase) + 1]]

(***************************************************************************)
(* C21: every proxy route answers a request that has its required fields   *)
(* and whose API key lacks the vendor's prefix with the invalid-key-format *)
(* error, and sends no request to the vendor.                              *)
(***************************************************************************)
C21_KeyPrefixChecked ==
  (/\ response # NoResponse
   /\ response.error # "missing_fields"
   /\ ~startsWith(request.apiKey, keyPrefix(request.provider)))
  => /\ response.error = "invalid_key_format"
     /\ response.vendorRequest = NoVendorRequest

\* the roles of contents alternate from user, and the last turn is a user turn
Alternating(contents) ==
  /\ \A i \in 1..Len(contents) :
       contents[i].role = IF i % 2 = 1 THEN "user" ELSE "model"
  /\ Len(contents) % 2 = 1

(***************************************************************************)
(* C22: the contents the Gemini route builds from the messages of every    *)
(* call of the conversational Gemini callAI start with the system exchange *)
(* (user, then model) and alternate strictly between user and model up to  *)
(* a final user turn.                                                      *)
(***************************************************************************)
C22_GeminiContentsAlternate ==
  \A c \in Closures :
    (/\ config.provider = "gemini"
     /\ Conversational(config)
     /\ config.hasApiKey
     /\ c.cb = "call") =>
      /\ Len(GeminiContents(c.windowedHistory)) >= 3
      /\ Alternating(GeminiContents(c.windowedHistory))

\* the letter a one-letter answer gives, whatever its case and the blanks around it
GivenLetter(answer) ==
  LET marks == { i \in 1..Len(answer) : answer[i] \notin Whitespace }
  IN IF Cardinality(marks) = 1 /\ IsABCDi(answer[Least(marks)])
     THEN toUpperCaseChar(answer[Least(marks)])
     ELSE "null"

(***************************************************************************)
(* C23: when the scoring endpoint accepts the token, an answer in which    *)
(* extractAnswerLetter resolves no letter (the raw text was passed on) is  *)
(* scored incorrect with score 0, the result is a success, and every other *)
(* answer is scored by its letter.                                         *)
(***************************************************************************)
C23_RawTextScoresZero ==
  (assessed # NotAssessed /\ assessed.code = "none") =>
    /\ assessed.success
    /\ \A i \in 1..Len(assessed.responses) :
         LET scored == assessed.results.responses[i]
         IN IF extractAnswerLetter(assessed.responses[i].answer) = "null"
            THEN ~scored.isCorrect /\ scored.score = 0
            ELSE scored.score =
                   IF GivenLetter(assessed.responses[i].answer) = scored.correctAnswer
                   THEN 1 ELSE 0

\* a raw text was scored next to a correct letter
C23_Witness ==
  /\ assessed # NotAssessed
  /\ assessed.success
  /\ \E i, j \in 1..Len(assessed.responses) :
       /\ extractAnswerLetter(assessed.responses[i].answer) = "null"
       /\ assessed.results.responses[j].score = 1

(***************************************************************************)
(* C30: the answers served for a question are a permutation of its four    *)
(* answers, the letter signed into the mapping token is the letter of the  *)
(* position at which the one positively scored answer is served, and a     *)
(* response that gives that letter is scored correct while a response that *)
(* gives another letter is scored incorrect.                               *)
(***************************************************************************)
C30_ConfigScoringRoundTrip ==
  /\ served # NotServed =>
       \A q \in 1..Len(served.questions) :
         LET shuffledAnswers == served.questions[q].answers
             answers == questions[q].answers
             positive == { i \in 1..Len(answers) : answers[i].score > 0 }
         IN /\ Len(shuffledAnswers) = 4
            /\ \A i \in 1..Len(answers) :
                 Cardinality({ k \in 1..4 : shuffledAnswers[k] = answers[i].answerText }) = 1
            /\ Cardinality(positive) = 1
            /\ \A i \in positive, k \in 1..4 :
                 shuffledAnswers[k] = answers[i].answerText =>
                   served.mappingToken.mappings[served.questions[q].id] = newLetters[k]
  /\ assessed.success =>
       \A i \in 1..Len(assessed.responses) :
         LET letter == GivenLetter(assessed.responses[i].answer)
             scored == assessed.results.responses[i]
         IN letter # "null" =>
              /\ scored.isCorrect <=>
                   letter = served.mappingToken.mappings[assessed.responses[i].questionId]
              /\ scored.score = IF scored.isCorrect THEN 1 ELSE 0

\* the correct answer was moved by the shuffle, and of two letters given one
\* was scored correct and the other incorrect
C30_Witness ==
  /\ assessed.success
  /\ \E q \in 1..Len(served.questions) :
       served.mappingToken.mappings[served.questions[q].id] # "B"
  /\ \E i, j \in 1..Len(assessed.responses) :
       /\ GivenLetter(assessed.responses[i].answer) # "null"
       /\ GivenLetter(assessed.responses[j].answer) # "null"
       /\ assessed.results.responses[i].score = 1
       /\ assessed.results.responses[j].score = 0

\* the first capture of a list of captures that is not "null"
RECURSIVE FirstCapture(_)
FirstCapture(captures) ==
  IF captures = <<>> THEN "null"
  ELSE IF Head(captures) # "null" THEN toUpperCaseChar(Head(captures))
  ELSE FirstCapture(Tail(captures))

\* what each of the four stages finds in the cleaned text, "null" when it does
\* not match
StageResults(cleaned) ==
  << IF Len(cleaned) = 1 /\ IsABCDi(cleaned[1]) THEN cleaned[1] ELSE "null",
     IF StartsWithLetter(cleaned) THEN cleaned[1] ELSE "null",
     FirstCapture(<<KeywordPattern(cleaned), ParenPattern(cleaned), DotPattern(cleaned),
                    DashPattern(cleaned), QuotedPattern(cleaned), ChoosePattern(cleaned),
                    AnswerIsPattern(cleaned)>>),
     StandalonePattern(cleaned) >>

(***************************************************************************)
(* C24: extractAnswerLetter returns A, B, C, D or null; its result is the  *)
(* result of the first stage that matches, in the order exact single       *)
(* letter, leading letter followed by a non-letter, pattern table in its   *)
(* order, first standalone letter; it is null exactly when no stage        *)
(* matches.                                                                *)
(***************************************************************************)
C24_FirstMatchingStage ==
  extracted \notin {"none", "pending"} =>
    LET stages == StageResults(toUpperCase(trim(rawResponse)))
        matching == { k \in 1..4 : stages[k] # "null" }
    IN /\ extracted \in AnswerLetters \cup {"null"}
       /\ extracted = "null" <=> matching = {}
       /\ matching # {} => extracted = stages[Least(matching)]

\* two patterns of the table capture different letters, no earlier stage
\* matches, and the text has been extracted
C24_Witness ==
  /\ extracted \in AnswerLetters
  /\ LET cleaned == toUpperCase(trim(rawResponse))
     IN /\ ~StartsWithLetter(cleaned)
        /\ KeywordPattern(cleaned) # "null"
        /\ AnswerIsPattern(cleaned) # "null"
        /\ toUpperCaseChar(KeywordPattern(cleaned)) # toUpperCaseChar(AnswerIsPattern(cleaned))

(***************************************************************************)
(* C25: in every run, fresh or resumed, the first provider call of the run *)
(* is issued without the inter-call delay, and the first attempt of every  *)
(* later question is preceded by exactly one wait of the provider's delay, *)
(* which starts after the result of the previous question was recorded.    *)
(***************************************************************************)
C25_InterCallDelay ==
  pc = "assess" =>
    /\ sdkNext = AssessFirstQuestion =>
         /\ run.cb # "delay"
         /\ run.cb = "call" => run.waits = <<>>
    /\ sdkNext > AssessFirstQuestion =>
         /\ (run.cb = "call" /\ run.retryCount = 0) =>
              run.waits = <<questionDelay(config.provider)>>
         /\ run.cb = "delay" => Len(run.partialResults) = run.questionIndex

\* the texts getErrorMessage returns for errors of the assessment platform, and
\* those of them that announce a platform limit (the page shows the upgrade
\* offer under every text that holds the lock)
PlatformTexts ==
  {InvalidHealthCheckKeyText, DemoLimitHourlyText, AssessmentLimitText, SafetyLimitText,
   DemoLimitText}
PlatformLimitTexts == { text \in PlatformTexts : Includes(text, <<"lock">>) }

(***************************************************************************)
(* C26: getErrorMessage maps every error with a platform code to a         *)
(* platform text whatever its status and message, and maps no error thrown *)
(* by a provider adapter to a platform-limit text.                         *)
(***************************************************************************)
C26_PlatformAndProviderApart ==
  shown # <<>> =>
    /\ caught.code \in PlatformCodes => shown \in PlatformTexts
    /\ caught.origin = "provider" => shown \notin PlatformLimitTexts

(***************************************************************************)
(* C27: in conversational mode, whenever the store holds both the saved    *)
(* conversation log and the saved partial results, the log has exactly     *)
(* twice as many entries as there are partial results, and its i-th pair   *)
(* is the question of result i as user message followed by the answer of   *)
(* result i as assistant message.                                          *)
(***************************************************************************)
C27_StoredLogPairsResults ==
  (/\ config.present
   /\ Conversational(config)
   /\ sessionStorage.assessment_history.set
   /\ sessionStorage.assessment_partial_results.set) =>
    LET log == ParseMessages(sessionStorage.assessment_history.value)
        results == ParseResults(sessionStorage.assessment_partial_results.value)
    IN /\ Len(log) = 2 * Len(results)
       /\ \A i \in 1..Len(results) :
            /\ log[2 * i - 1] = UserMsg(results[i].question)
            /\ log[2 * i] = AssistantMsg(results[i].answer)

(***************************************************************************)
(* C29: the rate-limit check fails open.  When the page's request throws,  *)
(* when the route has no demo key, or when the route's upstream request    *)
(* throws, the run goes on to status running; the status becomes           *)
(* rate-limited only when the upstream answer says canProceed false.       *)
(***************************************************************************)
C29_RateLimitFailsOpen ==
  [][\A pageFetch \in {"resolves", "throws"}, keyConfigured \in BOOLEAN,
        upstream \in UpstreamAnswers, resumeConfirmed \in BOOLEAN :
       RateLimitResolves(RateLimitData(pageFetch, keyConfigured, upstream),
                         resumeConfirmed) =>
         /\ (pageFetch = "throws" \/ ~keyConfigured \/ upstream = "throws") =>
              status' = "running"
         /\ status' = "rate-limited" =>
              (pageFetch = "resolves" /\ keyConfigured /\ upstream = "deny")]_vars

\* C28: on the configure page, whenever keyValid is true the provider and the
\* API key now in the form are the pair the validation verdict was computed
\* on, whatever was edited while a validation request was in flight.
C28_ValidMeansValidated ==
  (form # NoForm /\ form.keyValid = "true") =>
    form.validated = Pair(form.provider, form.apiKey)

====
